---- MODULE Spec2Model ----
(***************************************************************************)
(* Channel<T, N> of include/channel/channel.hpp: a ring buffer of N slots  *)
(* guarded by data_mutex_ and the condition variables send_cv_ and         *)
(* receive_cv_, with T = int, and the free function select_nb.             *)
(*                                                                         *)
(* Threads run the member functions step by step.  A step is a maximal    *)
(* piece of code that no other thread can observe in part: either it runs *)
(* with the mutex free before and after, or it is one stretch of a        *)
(* critical section.  Condition variables are explicit wait sets.         *)
(***************************************************************************)
EXTENDS Integers, Sequences, FiniteSets, TLC

\* ---- bounds of the model ------------------------------------------------
MaxN == 2               \* the capacities modelled are 1..MaxN
NumThreads == 3         \* threads sharing the channel
MaxVal == 2             \* payloads are 1..MaxVal
MaxCalls == 4           \* member-function calls started in one behaviour
NumOps == 3             \* sizeof...(Ops) of a select_nb call

Threads == 1 .. NumThreads
Values == 1 .. MaxVal
NoVal == 0              \* T{} : a value-initialised int, also "no payload"
Free == 0               \* data_mutex_ owned by nobody
OpIdx == 0 .. (NumOps - 1)

VARIABLES
    N,                  \* template parameter N of Channel<T, N>
    buffer_,            \* std::array<T, N>
    spaces_available_,  \* std::atomic<int>
    receive_pos_,       \* std::atomic<int>
    send_pos_,          \* std::atomic<int>
    closed_,            \* std::atomic<bool>
    data_mutex_,        \* Free or the thread owning the mutex
    send_cv_,           \* threads suspended in send_cv_.wait
    receive_cv_,        \* threads suspended in receive_cv_.wait
    pc,                 \* position of each thread
    data,               \* argument `data` of the running send / try_send
    ret,                \* <<status, payload>> of the running / last call
    looping,            \* thread runs consumer_work (receive until absent)
    calls,              \* calls started so far
    sent,               \* history: payloads stored into buffer_, in order
    received,           \* history: payloads moved out of buffer_, in order
    v,                  \* select_nb: the array v of operations (by index)
    ready,              \* select_nb: what operation k returns when invoked
    invoked,            \* select_nb: operations invoked so far, in order
    i,                  \* select_nb: loop index
    sel_pc,             \* select_nb: position
    sel_ret             \* select_nb: return value

Slots == 0 .. (N - 1)

chan == <<N, buffer_, spaces_available_, receive_pos_, send_pos_, closed_>>
sync == <<data_mutex_, send_cv_, receive_cv_>>
thr  == <<pc, data, ret, looping, calls>>
hist == <<sent, received>>
sel  == <<v, ready, invoked, i, sel_pc, sel_ret>>
vars == <<chan, sync, thr, hist, sel>>

\* ---- private predicates ---------------------------------------------------
\* emptiness mistaken for fullness
is_emtpy_NoSpace == spaces_available_ = 0

is_emtpy == spaces_available_ = N

\* variant: the full test looks for a negative count of free slots
is_full_Negative == spaces_available_ < 0

is_full == spaces_available_ = 0

is_closed == closed_

\* variant: termination does not look at the buffer
can_terminate_ClosedOnly == is_closed

can_terminate == is_closed /\ is_emtpy

\* variant: the sender waits for data instead of room
SendPred_NotEmpty == ~is_emtpy \/ closed_

\* predicate of send_cv_.wait in send
SendPred == ~is_full \/ closed_

\* predicate of receive_cv_.wait in receive
ReceivePred == ~is_emtpy \/ can_terminate

\* variant: the closed_ check only fires when there is no room
SendThrows_OnlyFull == closed_ /\ is_full

\* if (closed_.load()) throw send_after_close
SendThrows == closed_

\* variant: the index is not advanced
NextPos_Stuck(pos) == pos % N

\* (pos + 1) % N
NextPos(pos) == (pos + 1) % N

\* the occupied slots, oldest first
RECURSIVE Ring(_, _)
Ring(pos, cnt) ==
    IF cnt <= 0 THEN <<>> ELSE <<buffer_[pos]>> \o Ring(NextPos(pos), cnt - 1)

Buffered == Ring(receive_pos_, N - spaces_available_)

\* ---- condition variables --------------------------------------------------
\* cv.notify_all(): every thread of the wait set goes on to re-lock the mutex
Woken(cv, lockpc) == [t \in Threads |-> IF t \in cv THEN lockpc ELSE pc[t]]

Return(t, status, payload) ==
    /\ pc' = [pc EXCEPT ![t] = "idle"]
    /\ ret' = [ret EXCEPT ![t] = <<status, payload>>]

\* a thread may start a call; threads are numbered in the order of their
\* first call
CanCall(t) ==
    /\ pc[t] = "idle"
    /\ ~looping[t]
    /\ calls < MaxCalls
    /\ IF t = 1 THEN TRUE ELSE ret[t - 1][1] # "none"

\* the channel after construction, no thread in a call
ChanInit ==
    /\ N \in 1 .. MaxN
    /\ buffer_ = [s \in Slots |-> NoVal]
    /\ spaces_available_ = N
    /\ receive_pos_ = 0
    /\ send_pos_ = 0
    /\ closed_ = FALSE
    /\ data_mutex_ = Free
    /\ send_cv_ = {}
    /\ receive_cv_ = {}
    /\ pc = [t \in Threads |-> "idle"]
    /\ data = [t \in Threads |-> NoVal]
    /\ ret = [t \in Threads |-> <<"none", NoVal>>]
    /\ looping = [t \in Threads |-> FALSE]
    /\ calls = 0
    /\ sent = <<>>
    /\ received = <<>>

\* no select_nb call
Init ==
    /\ ChanInit
    /\ v = [k \in OpIdx |-> k]
    /\ ready = [k \in OpIdx |-> FALSE]
    /\ invoked = <<>>
    /\ i = 0
    /\ sel_pc = "off"
    /\ sel_ret = -1

\* ---- send -----------------------------------------------------------------
SendCall(t, d) ==
    /\ CanCall(t)
    /\ pc' = [pc EXCEPT ![t] = "s_lock"]
    /\ data' = [data EXCEPT ![t] = d]
    /\ ret' = [ret EXCEPT ![t] = <<"pending", NoVal>>]
    /\ calls' = calls + 1
    /\ UNCHANGED <<chan, sync, looping, hist, sel>>

\* unique_lock, send_cv_.wait(lk, pred), the closed_ check
SendLock(t) ==
    /\ pc[t] = "s_lock"
    /\ data_mutex_ = Free
    /\ IF ~SendPred
         THEN /\ send_cv_' = send_cv_ \cup {t}
              /\ pc' = [pc EXCEPT ![t] = "s_wait"]
              /\ UNCHANGED <<data_mutex_, ret>>
         ELSE IF SendThrows
         THEN /\ Return(t, "send_after_close", NoVal)
              /\ UNCHANGED <<data_mutex_, send_cv_>>
         ELSE /\ data_mutex_' = t
              /\ pc' = [pc EXCEPT ![t] = "s_store"]
              /\ UNCHANGED <<send_cv_, ret>>
    /\ UNCHANGED <<chan, receive_cv_, data, looping, calls, hist, sel>>

\* buffer_[pos] = data; send_pos_.store((pos + 1) % N)
SendStore(t) ==
    /\ pc[t] = "s_store"
    /\ buffer_' = [buffer_ EXCEPT ![send_pos_] = data[t]]
    /\ send_pos_' = NextPos(send_pos_)
    /\ sent' = Append(sent, data[t])
    /\ pc' = [pc EXCEPT ![t] = "s_sub"]
    /\ UNCHANGED <<N, spaces_available_, receive_pos_, closed_, sync, data, ret,
                   looping, calls, received, sel>>

\* spaces_available_.fetch_sub(1); end of the scope of lk
SendSub(t) ==
    /\ pc[t] = "s_sub"
    /\ spaces_available_' = spaces_available_ - 1
    /\ data_mutex_' = Free
    /\ pc' = [pc EXCEPT ![t] = "s_notify"]
    /\ UNCHANGED <<N, buffer_, receive_pos_, send_pos_, closed_, send_cv_,
                   receive_cv_, data, ret, looping, calls, hist, sel>>

\* receive_cv_.notify_all(); return
SendNotify(t) ==
    /\ pc[t] = "s_notify"
    /\ receive_cv_' = {}
    /\ pc' = [Woken(receive_cv_, "r_lock") EXCEPT ![t] = "idle"]
    /\ ret' = [ret EXCEPT ![t] = <<"sent", NoVal>>]
    /\ UNCHANGED <<chan, data_mutex_, send_cv_, data, looping, calls, hist, sel>>

\* ---- receive --------------------------------------------------------------
ReceiveCall(t) ==
    /\ CanCall(t)
    /\ pc' = [pc EXCEPT ![t] = "r_lock"]
    /\ ret' = [ret EXCEPT ![t] = <<"pending", NoVal>>]
    /\ calls' = calls + 1
    /\ UNCHANGED <<chan, sync, data, looping, hist, sel>>

\* unique_lock, receive_cv_.wait(lk, pred), if (can_terminate()) return nullopt
ReceiveLock(t) ==
    /\ pc[t] = "r_lock"
    /\ data_mutex_ = Free
    /\ IF ~ReceivePred
         THEN /\ receive_cv_' = receive_cv_ \cup {t}
              /\ pc' = [pc EXCEPT ![t] = "r_wait"]
              /\ UNCHANGED <<data_mutex_, ret>>
         ELSE IF can_terminate
         THEN /\ Return(t, "absent", NoVal)
              /\ UNCHANGED <<data_mutex_, receive_cv_>>
         ELSE /\ data_mutex_' = t
              /\ pc' = [pc EXCEPT ![t] = "r_take"]
              /\ UNCHANGED <<receive_cv_, ret>>
    /\ UNCHANGED <<chan, send_cv_, data, looping, calls, hist, sel>>

\* a take that reads the slot written last instead of the slot at receive_pos_
ReceiveTake_Newest(t) ==
    /\ pc[t] = "r_take"
    /\ ret' = [ret EXCEPT ![t] = <<"value", buffer_[(send_pos_ + N - 1) % N]>>]
    /\ received' = Append(received, buffer_[(send_pos_ + N - 1) % N])
    /\ receive_pos_' = NextPos(receive_pos_)
    /\ pc' = [pc EXCEPT ![t] = "r_add"]
    /\ UNCHANGED <<N, buffer_, spaces_available_, send_pos_, closed_, sync, data,
                   looping, calls, sent, sel>>

\* ret.emplace(std::move(buffer_[pos])); receive_pos_.store((pos + 1) % N)
ReceiveTake(t) ==
    /\ pc[t] = "r_take"
    /\ ret' = [ret EXCEPT ![t] = <<"value", buffer_[receive_pos_]>>]
    /\ received' = Append(received, buffer_[receive_pos_])
    /\ receive_pos_' = NextPos(receive_pos_)
    /\ pc' = [pc EXCEPT ![t] = "r_add"]
    /\ UNCHANGED <<N, buffer_, spaces_available_, send_pos_, closed_, sync, data,
                   looping, calls, sent, sel>>

\* spaces_available_.fetch_add(1); end of the scope of lk
ReceiveAdd(t) ==
    /\ pc[t] = "r_add"
    /\ spaces_available_' = spaces_available_ + 1
    /\ data_mutex_' = Free
    /\ pc' = [pc EXCEPT ![t] = "r_notify"]
    /\ UNCHANGED <<N, buffer_, receive_pos_, send_pos_, closed_, send_cv_,
                   receive_cv_, data, ret, looping, calls, hist, sel>>

\* receive that returns without send_cv_.notify_all()
ReceiveNotify_Silent(t) ==
    /\ pc[t] = "r_notify"
    /\ pc' = [pc EXCEPT ![t] = "idle"]
    /\ UNCHANGED <<chan, sync, data, ret, looping, calls, hist, sel>>

\* send_cv_.notify_all(); return ret
ReceiveNotify(t) ==
    /\ pc[t] = "r_notify"
    /\ send_cv_' = {}
    /\ pc' = [Woken(send_cv_, "s_lock") EXCEPT ![t] = "idle"]
    /\ UNCHANGED <<chan, data_mutex_, receive_cv_, data, ret, looping, calls,
                   hist, sel>>

\* ---- close ----------------------------------------------------------------
CloseCall(t) ==
    /\ CanCall(t)
    /\ pc' = [pc EXCEPT ![t] = "c_lock"]
    /\ ret' = [ret EXCEPT ![t] = <<"pending", NoVal>>]
    /\ calls' = calls + 1
    /\ UNCHANGED <<chan, sync, data, looping, hist, sel>>

\* variant: close also resets the ring to empty
CloseLock_Clears(t) ==
    /\ pc[t] = "c_lock"
    /\ data_mutex_ = Free
    /\ closed_' = TRUE
    /\ spaces_available_' = N
    /\ receive_pos_' = send_pos_
    /\ pc' = [pc EXCEPT ![t] = "c_notify"]
    /\ UNCHANGED <<N, buffer_, send_pos_, sync, data, ret, looping, calls,
                   hist, sel>>

\* variant: close flips the flag instead of setting it
CloseLock_Toggles(t) ==
    /\ pc[t] = "c_lock"
    /\ data_mutex_ = Free
    /\ closed_' = ~closed_
    /\ pc' = [pc EXCEPT ![t] = "c_notify"]
    /\ UNCHANGED <<N, buffer_, spaces_available_, receive_pos_, send_pos_, sync,
                   data, ret, looping, calls, hist, sel>>

\* { lock_guard lk(data_mutex_); closed_.store(true); }
CloseLock(t) ==
    /\ pc[t] = "c_lock"
    /\ data_mutex_ = Free
    /\ closed_' = TRUE
    /\ pc' = [pc EXCEPT ![t] = "c_notify"]
    /\ UNCHANGED <<N, buffer_, spaces_available_, receive_pos_, send_pos_, sync,
                   data, ret, looping, calls, hist, sel>>

\* variant: close notifies receive_cv_ only
CloseNotify_ReceiversOnly(t) ==
    /\ pc[t] = "c_notify"
    /\ receive_cv_' = {}
    /\ pc' = [Woken(receive_cv_, "r_lock") EXCEPT ![t] = "idle"]
    /\ ret' = [ret EXCEPT ![t] = <<"closed", NoVal>>]
    /\ UNCHANGED <<chan, data_mutex_, send_cv_, data, looping, calls, hist, sel>>

\* variant: close notifies send_cv_ only
CloseNotify_SendersOnly(t) ==
    /\ pc[t] = "c_notify"
    /\ send_cv_' = {}
    /\ pc' = [Woken(send_cv_, "s_lock") EXCEPT ![t] = "idle"]
    /\ ret' = [ret EXCEPT ![t] = <<"closed", NoVal>>]
    /\ UNCHANGED <<chan, data_mutex_, receive_cv_, data, looping, calls, hist, sel>>

\* receive_cv_.notify_all(); send_cv_.notify_all(); return
CloseNotify(t) ==
    /\ pc[t] = "c_notify"
    /\ receive_cv_' = {}
    /\ send_cv_' = {}
    /\ pc' = [u \in Threads |->
                IF u = t THEN "idle"
                ELSE IF u \in receive_cv_ THEN "r_lock"
                ELSE IF u \in send_cv_ THEN "s_lock"
                ELSE pc[u]]
    /\ ret' = [ret EXCEPT ![t] = <<"closed", NoVal>>]
    /\ UNCHANGED <<chan, data_mutex_, data, looping, calls, hist, sel>>

\* ---- try_send ------------------------------------------------------------
\* try_send that goes on without looking at owns_lock()
TrySend_IgnoresOwner(t, d) ==
    /\ CanCall(t)
    /\ calls' = calls + 1
    /\ data' = [data EXCEPT ![t] = d]
    /\ IF is_closed
         THEN /\ Return(t, "Closed", NoVal)
              /\ UNCHANGED data_mutex_
         ELSE IF is_full
         THEN /\ Return(t, "Full", NoVal)
              /\ UNCHANGED data_mutex_
         ELSE /\ data_mutex_' = t
              /\ pc' = [pc EXCEPT ![t] = "ts_store"]
              /\ ret' = [ret EXCEPT ![t] = <<"pending", NoVal>>]
    /\ UNCHANGED <<chan, send_cv_, receive_cv_, looping, hist, sel>>

\* try_send that waits on send_cv_ for a free slot, as send does
TrySend_Waits(t, d) ==
    /\ CanCall(t)
    /\ calls' = calls + 1
    /\ data' = [data EXCEPT ![t] = d]
    /\ IF data_mutex_ # Free
         THEN /\ Return(t, "Full", NoVal)
              /\ UNCHANGED <<data_mutex_, send_cv_>>
         ELSE IF is_closed
         THEN /\ Return(t, "Closed", NoVal)
              /\ UNCHANGED <<data_mutex_, send_cv_>>
         ELSE IF is_full
         THEN /\ send_cv_' = send_cv_ \cup {t}
              /\ pc' = [pc EXCEPT ![t] = "s_wait"]
              /\ ret' = [ret EXCEPT ![t] = <<"pending", NoVal>>]
              /\ UNCHANGED data_mutex_
         ELSE /\ data_mutex_' = t
              /\ pc' = [pc EXCEPT ![t] = "ts_store"]
              /\ ret' = [ret EXCEPT ![t] = <<"pending", NoVal>>]
              /\ UNCHANGED send_cv_
    /\ UNCHANGED <<chan, receive_cv_, looping, hist, sel>>

\* try_send with the fullness check ahead of the closed check
TrySend_FullFirst(t, d) ==
    /\ CanCall(t)
    /\ calls' = calls + 1
    /\ data' = [data EXCEPT ![t] = d]
    /\ IF data_mutex_ # Free
         THEN /\ Return(t, "Full", NoVal)
              /\ UNCHANGED data_mutex_
         ELSE IF is_full
         THEN /\ Return(t, "Full", NoVal)
              /\ UNCHANGED data_mutex_
         ELSE IF is_closed
         THEN /\ Return(t, "Closed", NoVal)
              /\ UNCHANGED data_mutex_
         ELSE /\ data_mutex_' = t
              /\ pc' = [pc EXCEPT ![t] = "ts_store"]
              /\ ret' = [ret EXCEPT ![t] = <<"pending", NoVal>>]
    /\ UNCHANGED <<chan, send_cv_, receive_cv_, looping, hist, sel>>

\* unique_lock(data_mutex_, try_to_lock) and the three early returns
TrySend(t, d) ==
    /\ CanCall(t)
    /\ calls' = calls + 1
    /\ data' = [data EXCEPT ![t] = d]
    /\ IF data_mutex_ # Free
         THEN /\ Return(t, "Full", NoVal)
              /\ UNCHANGED data_mutex_
         ELSE IF is_closed
         THEN /\ Return(t, "Closed", NoVal)
              /\ UNCHANGED data_mutex_
         ELSE IF is_full
         THEN /\ Return(t, "Full", NoVal)
              /\ UNCHANGED data_mutex_
         ELSE /\ data_mutex_' = t
              /\ pc' = [pc EXCEPT ![t] = "ts_store"]
              /\ ret' = [ret EXCEPT ![t] = <<"pending", NoVal>>]
    /\ UNCHANGED <<chan, send_cv_, receive_cv_, looping, hist, sel>>

\* buffer_[pos] = data; send_pos_.store((pos + 1) % N)
TrySendStore(t) ==
    /\ pc[t] = "ts_store"
    /\ buffer_' = [buffer_ EXCEPT ![send_pos_] = data[t]]
    /\ send_pos_' = NextPos(send_pos_)
    /\ sent' = Append(sent, data[t])
    /\ pc' = [pc EXCEPT ![t] = "ts_sub"]
    /\ UNCHANGED <<N, spaces_available_, receive_pos_, closed_, sync, data, ret,
                   looping, calls, received, sel>>

\* spaces_available_.fetch_sub(1); lk.unlock()
TrySendSub(t) ==
    /\ pc[t] = "ts_sub"
    /\ spaces_available_' = spaces_available_ - 1
    /\ data_mutex_' = Free
    /\ pc' = [pc EXCEPT ![t] = "ts_notify"]
    /\ UNCHANGED <<N, buffer_, receive_pos_, send_pos_, closed_, send_cv_,
                   receive_cv_, data, ret, looping, calls, hist, sel>>

\* receive_cv_.notify_all(); return SendResult::Success
TrySendNotify(t) ==
    /\ pc[t] = "ts_notify"
    /\ receive_cv_' = {}
    /\ pc' = [Woken(receive_cv_, "r_lock") EXCEPT ![t] = "idle"]
    /\ ret' = [ret EXCEPT ![t] = <<"Success", NoVal>>]
    /\ UNCHANGED <<chan, data_mutex_, send_cv_, data, looping, calls, hist, sel>>

\* ---- try_receive ---------------------------------------------------------
\* try_receive that hands out the values left in a closed channel, as receive does
TryReceive_Drains(t) ==
    /\ CanCall(t)
    /\ calls' = calls + 1
    /\ IF data_mutex_ # Free
         THEN /\ Return(t, "Empty", NoVal)
              /\ UNCHANGED data_mutex_
         ELSE IF can_terminate
         THEN /\ Return(t, "Closed", NoVal)
              /\ UNCHANGED data_mutex_
         ELSE IF is_emtpy
         THEN /\ Return(t, "Empty", NoVal)
              /\ UNCHANGED data_mutex_
         ELSE /\ data_mutex_' = t
              /\ pc' = [pc EXCEPT ![t] = "tr_take"]
              /\ ret' = [ret EXCEPT ![t] = <<"pending", NoVal>>]
    /\ UNCHANGED <<chan, send_cv_, receive_cv_, data, looping, hist, sel>>

\* unique_lock(data_mutex_, try_to_lock) and the three early returns
TryReceive(t) ==
    /\ CanCall(t)
    /\ calls' = calls + 1
    /\ IF data_mutex_ # Free
         THEN /\ Return(t, "Empty", NoVal)
              /\ UNCHANGED data_mutex_
         ELSE IF is_closed
         THEN /\ Return(t, "Closed", NoVal)
              /\ UNCHANGED data_mutex_
         ELSE IF is_emtpy
         THEN /\ Return(t, "Empty", NoVal)
              /\ UNCHANGED data_mutex_
         ELSE /\ data_mutex_' = t
              /\ pc' = [pc EXCEPT ![t] = "tr_take"]
              /\ ret' = [ret EXCEPT ![t] = <<"pending", NoVal>>]
    /\ UNCHANGED <<chan, send_cv_, receive_cv_, data, looping, hist, sel>>

\* result = std::move(buffer_[pos]); receive_pos_.store((pos + 1) % N)
TryReceiveTake(t) ==
    /\ pc[t] = "tr_take"
    /\ ret' = [ret EXCEPT ![t] = <<"Success", buffer_[receive_pos_]>>]
    /\ received' = Append(received, buffer_[receive_pos_])
    /\ receive_pos_' = NextPos(receive_pos_)
    /\ pc' = [pc EXCEPT ![t] = "tr_add"]
    /\ UNCHANGED <<N, buffer_, spaces_available_, send_pos_, closed_, sync, data,
                   looping, calls, sent, sel>>

\* spaces_available_.fetch_add(1); lk.unlock()
TryReceiveAdd(t) ==
    /\ pc[t] = "tr_add"
    /\ spaces_available_' = spaces_available_ + 1
    /\ data_mutex_' = Free
    /\ pc' = [pc EXCEPT ![t] = "tr_notify"]
    /\ UNCHANGED <<N, buffer_, receive_pos_, send_pos_, closed_, send_cv_,
                   receive_cv_, data, ret, looping, calls, hist, sel>>

\* send_cv_.notify_all(); return make_pair(RecvResult::Success, result)
TryReceiveNotify(t) ==
    /\ pc[t] = "tr_notify"
    /\ send_cv_' = {}
    /\ pc' = [Woken(send_cv_, "s_lock") EXCEPT ![t] = "idle"]
    /\ UNCHANGED <<chan, data_mutex_, receive_cv_, data, ret, looping, calls,
                   hist, sel>>

\* ---- is_closed -----------------------------------------------------------
IsClosed(t) ==
    /\ CanCall(t)
    /\ calls' = calls + 1
    /\ Return(t, IF is_closed THEN "true" ELSE "false", NoVal)
    /\ UNCHANGED <<chan, sync, data, looping, hist, sel>>

\* ---- condition_variable::wait may return without a notification ----------
SpuriousWake(t) ==
    /\ t \in send_cv_ \cup receive_cv_
    /\ send_cv_' = send_cv_ \ {t}
    /\ receive_cv_' = receive_cv_ \ {t}
    /\ pc' = [pc EXCEPT ![t] = IF t \in send_cv_ THEN "s_lock" ELSE "r_lock"]
    /\ UNCHANGED <<chan, data_mutex_, data, ret, looping, calls, hist, sel>>

\* ---- consumer_work of the tests: receive until absent --------------------
ConsumeCall(t) ==
    /\ CanCall(t)
    /\ calls' = calls + 1
    /\ looping' = [looping EXCEPT ![t] = TRUE]
    /\ pc' = [pc EXCEPT ![t] = "r_lock"]
    /\ ret' = [ret EXCEPT ![t] = <<"pending", NoVal>>]
    /\ UNCHANGED <<chan, sync, data, hist, sel>>

\* if (!maybeValue.has_value()) break; otherwise the next ch.receive()
ConsumeNext(t) ==
    /\ pc[t] = "idle"
    /\ looping[t]
    /\ IF ret[t][1] = "absent"
         THEN /\ looping' = [looping EXCEPT ![t] = FALSE]
              /\ UNCHANGED <<pc, ret>>
         ELSE /\ pc' = [pc EXCEPT ![t] = "r_lock"]
              /\ ret' = [ret EXCEPT ![t] = <<"pending", NoVal>>]
              /\ UNCHANGED looping
    /\ UNCHANGED <<chan, sync, data, calls, hist, sel>>

Next ==
    \/ \E t \in Threads, d \in Values : SendCall(t, d)
    \/ \E t \in Threads : SendLock(t)
    \/ \E t \in Threads : SendStore(t)
    \/ \E t \in Threads : SendSub(t)
    \/ \E t \in Threads : SendNotify(t)
    \/ \E t \in Threads : ReceiveCall(t)
    \/ \E t \in Threads : ReceiveLock(t)
    \/ \E t \in Threads : ReceiveTake(t)
    \/ \E t \in Threads : ReceiveAdd(t)
    \/ \E t \in Threads : ReceiveNotify(t)
    \/ \E t \in Threads : CloseCall(t)
    \/ \E t \in Threads : CloseLock(t)
    \/ \E t \in Threads : CloseNotify(t)
    \/ \E t \in Threads, d \in Values : TrySend(t, d)
    \/ \E t \in Threads : TrySendStore(t)
    \/ \E t \in Threads : TrySendSub(t)
    \/ \E t \in Threads : TrySendNotify(t)
    \/ \E t \in Threads : TryReceive(t)
    \/ \E t \in Threads : TryReceiveTake(t)
    \/ \E t \in Threads : TryReceiveAdd(t)
    \/ \E t \in Threads : TryReceiveNotify(t)
    \/ \E t \in Threads : IsClosed(t)
    \/ \E t \in Threads : SpuriousWake(t)

Spec == Init /\ [][Next]_vars

\* ---- select_nb -----------------------------------------------------------
\* the outcomes of std::shuffle(v.begin(), v.end(), rng)
Shuffles == {p \in [OpIdx -> OpIdx] : \A k \in OpIdx : \E j \in OpIdx : p[j] = k}

\* a call select_nb(op_0, ..., op_{NumOps-1}): v{ops...} holds the operations
\* in the caller's order, and operation k returns ready[k] when invoked
SelInit ==
    /\ ChanInit
    /\ v = [k \in OpIdx |-> k]
    /\ ready \in [OpIdx -> BOOLEAN]
    /\ invoked = <<>>
    /\ i = 0
    /\ sel_pc = "shuffle"
    /\ sel_ret = -1

\* std::shuffle(v.begin(), v.end(), rng); i = 0
SelectShuffle ==
    /\ sel_pc = "shuffle"
    /\ \E p \in Shuffles : v' = [k \in OpIdx |-> v[p[k]]]
    /\ i' = 0
    /\ sel_pc' = "loop"
    /\ UNCHANGED <<chan, sync, thr, hist, ready, invoked, sel_ret>>

\* the loop without its return: a successful operation does not end the call
SelectInvoke_KeepsGoing ==
    /\ sel_pc = "loop"
    /\ i < NumOps
    /\ invoked' = Append(invoked, v[i])
    /\ i' = i + 1
    /\ sel_ret' = IF ready[v[i]] THEN i ELSE sel_ret
    /\ UNCHANGED <<chan, sync, thr, hist, v, ready, sel_pc>>

\* if (v[i]()) return static_cast<int>(i); otherwise ++i
SelectInvoke ==
    /\ sel_pc = "loop"
    /\ i < NumOps
    /\ invoked' = Append(invoked, v[i])
    /\ IF ready[v[i]]
         THEN /\ sel_ret' = i
              /\ sel_pc' = "done"
              /\ UNCHANGED i
         ELSE /\ i' = i + 1
              /\ UNCHANGED <<sel_ret, sel_pc>>
    /\ UNCHANGED <<chan, sync, thr, hist, v, ready>>

\* return -1
SelectDefault ==
    /\ sel_pc = "loop"
    /\ i = NumOps
    /\ sel_ret' = -1
    /\ sel_pc' = "done"
    /\ UNCHANGED <<chan, sync, thr, hist, v, ready, invoked, i>>

SelNext ==
    \/ SelectShuffle
    \/ SelectInvoke
    \/ SelectDefault

SelSpec == SelInit /\ [][SelNext]_vars

\* ---- scheduling -----------------------------------------------------------
\* the workload of the tests and of runScenario: threads send, close and run
\* consumer_work
LiveNext ==
    \/ \E t \in Threads, d \in Values : SendCall(t, d)
    \/ \E t \in Threads : SendLock(t)
    \/ \E t \in Threads : SendStore(t)
    \/ \E t \in Threads : SendSub(t)
    \/ \E t \in Threads : SendNotify(t)
    \/ \E t \in Threads : ConsumeCall(t)
    \/ \E t \in Threads : ConsumeNext(t)
    \/ \E t \in Threads : ReceiveLock(t)
    \/ \E t \in Threads : ReceiveTake(t)
    \/ \E t \in Threads : ReceiveAdd(t)
    \/ \E t \in Threads : ReceiveNotify(t)
    \/ \E t \in Threads : CloseCall(t)
    \/ \E t \in Threads : CloseLock(t)
    \/ \E t \in Threads : CloseNotify(t)
    \/ \E t \in Threads : SpuriousWake(t)

\* the steps of thread t that the scheduler runs once they are possible:
\* everything but starting a new call and waking without a notification
Run(t) ==
    \/ SendLock(t) \/ SendStore(t) \/ SendSub(t) \/ SendNotify(t)
    \/ ReceiveLock(t) \/ ReceiveTake(t) \/ ReceiveAdd(t) \/ ReceiveNotify(t)
    \/ CloseLock(t) \/ CloseNotify(t)
    \/ ConsumeNext(t)

Fairness == \A t \in Threads : WF_vars(Run(t))

FairSpec == Init /\ [][LiveNext]_vars /\ Fairness

\* ---- vocabulary of the properties ----------------------------------------
\* ---- the blocking and the non-blocking calls under a fair scheduler --------
WakeNext ==
    \/ \E t \in Threads, d \in Values : SendCall(t, d)
    \/ \E t \in Threads : SendLock(t)
    \/ \E t \in Threads : SendStore(t)
    \/ \E t \in Threads : SendSub(t)
    \/ \E t \in Threads : SendNotify(t)
    \/ \E t \in Threads : ReceiveCall(t)
    \/ \E t \in Threads : ReceiveLock(t)
    \/ \E t \in Threads : ReceiveTake(t)
    \/ \E t \in Threads : ReceiveAdd(t)
    \/ \E t \in Threads : ReceiveNotify(t)
    \/ \E t \in Threads : CloseCall(t)
    \/ \E t \in Threads : CloseLock(t)
    \/ \E t \in Threads : CloseNotify(t)
    \/ \E t \in Threads, d \in Values : TrySend(t, d)
    \/ \E t \in Threads : TrySendStore(t)
    \/ \E t \in Threads : TrySendSub(t)
    \/ \E t \in Threads : TrySendNotify(t)
    \/ \E t \in Threads : TryReceive(t)
    \/ \E t \in Threads : TryReceiveTake(t)
    \/ \E t \in Threads : TryReceiveAdd(t)
    \/ \E t \in Threads : TryReceiveNotify(t)
    \/ \E t \in Threads : SpuriousWake(t)

\* the steps of thread t that the scheduler runs once they are possible
WakeRun(t) ==
    \/ SendLock(t) \/ SendStore(t) \/ SendSub(t) \/ SendNotify(t)
    \/ ReceiveLock(t) \/ ReceiveTake(t) \/ ReceiveAdd(t) \/ ReceiveNotify(t)
    \/ CloseLock(t) \/ CloseNotify(t)
    \/ TrySendStore(t) \/ TrySendSub(t) \/ TrySendNotify(t)
    \/ TryReceiveTake(t) \/ TryReceiveAdd(t) \/ TryReceiveNotify(t)

WakeFairness == \A t \in Threads : WF_vars(WakeRun(t))

WakeSpec == Init /\ [][WakeNext]_vars /\ WakeFairness

\* ---- ProducerSequenceIntegrity: producers send numbered packets -----------
\* Packet{producer, sequence} as one number
Packet(id, seq) == id * (MaxCalls + 1) + seq

\* p.producer
Producer(p) == p \div (MaxCalls + 1)

\* p.sequence
Sequence(p) == p % (MaxCalls + 1)

\* the loop counter i of producer_work: the packets of producer id stored so far
NextSeq(id) == Cardinality({k \in 1 .. Len(sent) : Producer(sent[k]) = id})

\* ch.send(Packet{id, i})
ProducerSend(t) == SendCall(t, Packet(t, NextSeq(t)))

ProdNext ==
    \/ \E t \in Threads : ProducerSend(t)
    \/ \E t \in Threads : SendLock(t)
    \/ \E t \in Threads : SendStore(t)
    \/ \E t \in Threads : SendSub(t)
    \/ \E t \in Threads : SendNotify(t)
    \/ \E t \in Threads : ConsumeCall(t)
    \/ \E t \in Threads : ConsumeNext(t)
    \/ \E t \in Threads : ReceiveLock(t)
    \/ \E t \in Threads : ReceiveTake(t)
    \/ \E t \in Threads : ReceiveAdd(t)
    \/ \E t \in Threads : ReceiveNotify(t)
    \/ \E t \in Threads : CloseCall(t)
    \/ \E t \in Threads : CloseLock(t)
    \/ \E t \in Threads : CloseNotify(t)
    \/ \E t \in Threads : SpuriousWake(t)

ProdSpec == Init /\ [][ProdNext]_vars

AllVals == Values \cup {NoVal}

Count(seq, x) == Cardinality({k \in 1 .. Len(seq) : seq[k] = x})

IsPrefix(a, b) == Len(a) <= Len(b) /\ SubSeq(b, 1, Len(a)) = a

Unlocked == data_mutex_ = Free

\* thread t is inside send() and has not yet passed the wait and the closed_ check
SendPending(t) == pc[t] \in {"s_lock", "s_wait"}

\* thread t is inside receive()
InReceive(t) == pc[t] \in {"r_lock", "r_wait", "r_take", "r_add", "r_notify"}

\* thread t returns from its call in this step with the given status
Returns(t, status) ==
    /\ pc[t] # "idle"
    /\ pc'[t] = "idle"
    /\ ret'[t][1] = status

\* C1 -- no loss, no duplication: whenever the mutex is free, every payload has
\* been stored exactly as often as it has been handed to a receive/try_receive
\* call or is still buffered; nothing is ever handed out more often than it was
\* stored, and the default value of an unfilled slot is never handed out.
C1_NoLossNoDup ==
    /\ \A x \in AllVals : Count(received, x) <= Count(sent, x)
    /\ Count(received, NoVal) = 0
    /\ Unlocked =>
         \A x \in AllVals :
            Count(sent, x) = Count(received, x) + Count(Buffered, x)

\* two payloads stored, each delivered to a different call (receive and try_receive)
C1_Witness ==
    /\ Len(sent) = 2
    /\ sent[1] # sent[2]
    /\ Unlocked
    /\ \E t, u \in Threads :
          /\ t # u
          /\ pc[t] = "idle" /\ ret[t] = <<"value", sent[1]>>
          /\ pc[u] = "idle" /\ ret[u] = <<"Success", sent[2]>>

\* C2 -- FIFO: the payloads moved out of the buffer are, in order, the first
\* payloads stored into it (the k-th received is the k-th sent), also when the
\* ring indices wrap around.
C2_Fifo == IsPrefix(received, sent)

\* capacity 2, three distinct-looking payloads through a consumer loop: the third
\* was stored in slot 0 again and has been received after the second
C2_Witness ==
    /\ N = 2
    /\ Len(sent) = 3
    /\ received = sent
    /\ sent[1] # sent[2] /\ sent[2] # sent[3]
    /\ Cardinality({t \in Threads : looping[t]}) = 1

\* C3 -- send after close fails: once closed_ is set, a send() that has not yet
\* passed its closed_ check can only end with send_after_close, and the step in
\* which it fails leaves buffer_, send_pos_ and spaces_available_ as they were.
C3_SendAfterClose ==
    [][\A t \in Threads :
          (closed_ /\ SendPending(t)) =>
             /\ pc'[t] \in {"s_lock", "s_wait", "idle"}
             /\ pc'[t] = "idle" =>
                  /\ ret'[t] = <<"send_after_close", NoVal>>
                  /\ UNCHANGED <<buffer_, send_pos_, spaces_available_>>]_vars

\* a send has failed on a closed channel that has a free slot
C3_Witness ==
    \E t \in Threads :
       /\ pc[t] = "idle"
       /\ ret[t][1] = "send_after_close"
       /\ closed_
       /\ spaces_available_ > 0

\* C4 -- receive() returns absent exactly when, at its decision under the mutex,
\* the channel is closed and empty, and then consumes nothing; with a non-empty
\* buffer it goes on to take a value, closed or not, and returns it.
C4_ReceiveAbsentIff ==
    [][\A t \in Threads :
          /\ (pc[t] = "r_lock" /\ pc'[t] # "r_lock") =>
                /\ Returns(t, "absent") <=> (closed_ /\ spaces_available_ = N)
                /\ Returns(t, "absent") =>
                      UNCHANGED <<buffer_, receive_pos_, spaces_available_>>
                /\ spaces_available_ < N => pc'[t] = "r_take"
                /\ pc'[t] = "r_wait" <=> (~closed_ /\ spaces_available_ = N)
          /\ (pc[t] = "r_take" /\ pc'[t] # "r_take") =>
                ret'[t] = <<"value", Head(Buffered)>>
          /\ (InReceive(t) /\ pc[t] # "r_lock" /\ pc'[t] = "idle") =>
                /\ ret'[t][1] = "value"
                /\ ret'[t] = ret[t]]_vars

\* a receive has returned absent after values went through the channel
C4_Witness ==
    \E t \in Threads :
       /\ pc[t] = "idle"
       /\ ret[t] = <<"absent", NoVal>>
       /\ Len(received) >= 1
       /\ \E u \in Threads : u # t /\ ret[u][1] = "value"

\* thread t performs the locked part of close() in this step
Closes(t) == pc[t] = "c_lock" /\ pc'[t] = "c_notify"

\* C5 -- close() does not clear the buffer: both of its steps leave buffer_,
\* receive_pos_, send_pos_ and spaces_available_ as they were; after it nothing
\* more is stored, the values then buffered are moved out in the order they
\* were stored, and no receive() returns absent before all of them are out.
C5_CloseKeepsBuffer ==
    /\ [][\A t \in Threads :
             /\ (pc[t] \in {"c_lock", "c_notify"} /\ pc'[t] # pc[t]) =>
                   UNCHANGED <<buffer_, receive_pos_, send_pos_, spaces_available_>>
             /\ closed_ => sent' = sent
             /\ Returns(t, "absent") => received = sent]_vars
    /\ [](Unlocked => sent = received \o Buffered)

\* a receive takes a value from a closed channel that held two values
C5_Witness ==
    /\ closed_
    /\ Len(Buffered) = 2
    /\ Buffered[1] # Buffered[2]
    /\ \E t \in Threads : pc[t] = "r_take"

\* C6 -- close() is idempotent and never fails: a close() on a closed channel
\* leaves the closed flag, the buffer, the indices and the count unchanged in
\* both of its steps, and it returns normally.
C6_CloseIdempotent ==
    [][\A t \in Threads :
          /\ (closed_ /\ pc[t] = "c_lock" /\ pc'[t] # "c_lock") =>
                (Closes(t) /\ UNCHANGED chan)
          /\ (pc[t] = "c_notify" /\ pc'[t] # "c_notify") =>
                (Returns(t, "closed") /\ closed_ /\ UNCHANGED chan)]_vars

\* a second close has run its locked step after another close returned, with a
\* value still buffered
C6_Witness ==
    \E t, u \in Threads :
       /\ t # u
       /\ pc[u] = "idle" /\ ret[u][1] = "closed"
       /\ pc[t] = "c_notify"
       /\ closed_
       /\ spaces_available_ < N

C8_CloseUnblocksSenders ==
    /\ \A t \in Threads :
          (t \in send_cv_ /\ closed_)
             ~> (pc[t] = "idle" /\ ret[t] = <<"send_after_close", NoVal>>)
    /\ [][\A t \in Threads :
             (closed_ /\ SendPending(t)) => pc'[t] # "s_store"]_vars

\* two senders are suspended on the full channel at the moment it is closed
C8_Witness ==
    /\ closed_
    /\ is_full
    /\ Cardinality(send_cv_) >= 2
    /\ \E t \in Threads : pc[t] = "c_notify"

\* C9 -- close() unblocks every blocked receiver: once the channel is closed,
\* every thread inside receive() eventually returns, and every consumer loop
\* eventually ends.
C9_CloseUnblocksReceivers ==
    /\ \A t \in Threads : (closed_ /\ InReceive(t)) ~> (pc[t] = "idle")
    /\ \A t \in Threads : (closed_ /\ looping[t]) ~> ~looping[t]

\* two consumers are suspended on the empty channel at the moment it is closed
C9_Witness ==
    /\ closed_
    /\ Cardinality(receive_cv_) >= 2
    /\ \A t \in receive_cv_ : looping[t]
    /\ \E t \in Threads : pc[t] = "c_notify"

\* C10 -- select_nb returns the index of the operation that succeeded: when it
\* returns i >= 0, the operation invoked last, the one that returned true, is
\* op_i of the caller's argument list.
C10_SelectReturnsCallerIndex ==
    (sel_pc = "done" /\ sel_ret >= 0) =>
       /\ invoked # <<>>
       /\ invoked[Len(invoked)] = sel_ret
\* C11 -- select_nb performs at most one successful operation per call: the
\* operations are invoked one at a time in the shuffled order, each at most
\* once, none after the first that returned true, and the call returns -1
\* exactly when every operation was invoked once and all of them returned false.
C11_SelectAtMostOne ==
    /\ Len(invoked) <= NumOps
    /\ \A k \in 1..Len(invoked) : invoked[k] = v[k - 1]
    /\ \A j, k \in 1..Len(invoked) : invoked[j] = invoked[k] => j = k
    /\ \A k \in 1..Len(invoked) : ready[invoked[k]] => k = Len(invoked)
    /\ sel_pc = "done" =>
          (sel_ret = -1 <=>
             /\ \A k \in OpIdx : Count(invoked, k) = 1
             /\ \A k \in OpIdx : ~ready[k])

\* a call that stopped at its second operation and left a ready one uninvoked
C11_Witness ==
    /\ sel_pc = "done"
    /\ sel_ret >= 0
    /\ Len(invoked) = 2
    /\ \E k \in OpIdx : ready[k] /\ Count(invoked, k) = 0

\* results[id] of the test: the sequence numbers received from producer id
Results(id) ==
    LET FromId(p) == Producer(p) = id
        Pkts == SelectSeq(received, FromId)
    IN  [k \in 1 .. Len(Pkts) |-> Sequence(Pkts[k])]

\* C12 -- Per-producer order with many producers: the packets of one producer
\* are dequeued in the order that producer sent them, so the k-th packet
\* received from a producer carries that producer's k-th sequence number,
\* whatever the interleaving with the other producers.
C12_ProducerOrder ==
    \A id \in Threads : \A k \in 1 .. Len(Results(id)) : Results(id)[k] = k - 1

\* two packets of one producer received with a packet of another in between
C12_Witness ==
    /\ Len(received) = 3
    /\ Producer(received[1]) = Producer(received[3])
    /\ Producer(received[2]) # Producer(received[1])
    /\ Results(Producer(received[1])) = <<0, 1>>

\* thread t takes a step of the call it is in
Steps(t, at) == pc[t] = at /\ pc'[t] # at

\* C13 -- try_send reports exactly one of Success, Full, Closed. When it gets
\* the mutex: Closed if the channel is closed (also when it is full as well),
\* else Full if the count is N, else it writes the value at send_pos_, advances
\* send_pos_ modulo N, takes one from spaces_available_ and returns Success.
\* On Closed and Full the channel is unchanged.
C13_TrySendResult ==
    [][\A t \in Threads :
         /\ \A d \in Values : (TrySend(t, d) /\ data_mutex_ = Free) =>
              IF closed_
                THEN /\ pc'[t] = "idle"
                     /\ ret'[t] = <<"Closed", NoVal>>
                     /\ UNCHANGED <<chan, sync, hist>>
              ELSE IF N - spaces_available_ = N
                THEN /\ pc'[t] = "idle"
                     /\ ret'[t] = <<"Full", NoVal>>
                     /\ UNCHANGED <<chan, sync, hist>>
              ELSE /\ pc'[t] = "ts_store"
                   /\ data'[t] = d
                   /\ data_mutex_' = t
                   /\ UNCHANGED chan
         /\ Steps(t, "ts_store") =>
              /\ pc'[t] = "ts_sub"
              /\ buffer_' = [buffer_ EXCEPT ![send_pos_] = data[t]]
              /\ send_pos_' = (send_pos_ + 1) % N
              /\ UNCHANGED <<N, spaces_available_, receive_pos_, closed_>>
         /\ Steps(t, "ts_sub") =>
              /\ pc'[t] = "ts_notify"
              /\ spaces_available_' = spaces_available_ - 1
              /\ UNCHANGED <<N, buffer_, receive_pos_, send_pos_, closed_>>
         /\ Steps(t, "ts_notify") =>
              /\ pc'[t] = "idle"
              /\ ret'[t] = <<"Success", NoVal>>
              /\ UNCHANGED chan
      ]_vars

\* one try_send on its way to Success while another has been told Full on the
\* full channel
C13_Witness ==
    \E t, u \in Threads :
       /\ pc[t] = "ts_notify"
       /\ pc[u] = "idle"
       /\ ret[u] = <<"Full", NoVal>>
       /\ N - spaces_available_ = N
       /\ data_mutex_ = Free

\* the positions inside try_send, try_receive and close after the mutex is taken
NonBlockingAt ==
    {"ts_store", "ts_sub", "ts_notify", "tr_take", "tr_add", "tr_notify", "c_notify"}

\* the step thread t takes from one of those positions
NonBlockingStep(t) ==
    \/ TrySendStore(t) \/ TrySendSub(t) \/ TrySendNotify(t)
    \/ TryReceiveTake(t) \/ TryReceiveAdd(t) \/ TryReceiveNotify(t)
    \/ CloseNotify(t)

\* the step of the thread that holds the mutex, up to its release
HolderStep(u) ==
    \/ SendStore(u) \/ SendSub(u)
    \/ ReceiveTake(u) \/ ReceiveAdd(u)
    \/ TrySendStore(u) \/ TrySendSub(u)
    \/ TryReceiveTake(u) \/ TryReceiveAdd(u)

\* thread t is suspended on one of the two condition variables
Suspended(t) == t \in send_cv_ \cup receive_cv_

\* in every state: a thread inside try_send, try_receive or close can take its
\* next step, except that close waits for the mutex while its holder can take
\* its own; and any of the three calls and is_closed can be made by an idle thread
C14_NeverSuspended ==
    \A t \in Threads :
       /\ pc[t] \in NonBlockingAt => ~Suspended(t) /\ ENABLED NonBlockingStep(t)
       /\ pc[t] = "c_lock" =>
             /\ ~Suspended(t)
             /\ \/ ENABLED CloseLock(t)
                \/ \E u \in Threads \ {t} : data_mutex_ = u /\ ENABLED HolderStep(u)
       /\ CanCall(t) =>
             /\ \A d \in Values : ENABLED TrySend(t, d)
             /\ ENABLED TryReceive(t)
             /\ ENABLED CloseCall(t)
             /\ ENABLED IsClosed(t)

\* C14 -- try_send, try_receive, close and is_closed never block: in every
\* channel state each of them completes without waiting for a counterpart
\* operation; try_send on a full open channel and try_receive on an empty open
\* channel return at once instead of waiting.
C14_NonBlocking ==
    /\ []C14_NeverSuspended
    /\ [][\A t \in Threads :
            /\ \A d \in Values : TrySend(t, d) =>
                 /\ ~Suspended(t)'
                 /\ pc'[t] \in {"idle", "ts_store"}
                 /\ (~closed_ /\ spaces_available_ = 0) => pc'[t] = "idle"
            /\ TryReceive(t) =>
                 /\ ~Suspended(t)'
                 /\ pc'[t] \in {"idle", "tr_take"}
                 /\ (~closed_ /\ spaces_available_ = N) => pc'[t] = "idle"
            /\ IsClosed(t) => pc'[t] = "idle"
            /\ CloseCall(t) => ~Suspended(t)' /\ pc'[t] = "c_lock"
         ]_vars

\* try_send has returned Full on the full open channel on which a send is
\* suspended, after try_receive had returned Empty while nothing was stored
C14_Witness ==
    \E t, u, w \in Threads :
       /\ t \in send_cv_
       /\ spaces_available_ = 0
       /\ ~closed_
       /\ pc[u] = "idle"
       /\ ret[u] = <<"Full", NoVal>>
       /\ pc[w] = "idle"
       /\ ret[w] = <<"Empty", NoVal>>
       /\ Len(received) = 0
       /\ Len(sent) = N

Occupied == {(receive_pos_ + k) % N : k \in 0 .. (N - spaces_available_ - 1)}

\* C16 -- Capacity invariant: in every reachable state the number of buffered
\* elements N - spaces_available_ is between 0 and N, so a send never writes
\* over a slot whose value has not been received and a receive never reads a
\* slot that has not been filled.
C16_Capacity ==
    /\ 0 <= N - spaces_available_
    /\ N - spaces_available_ <= N
    /\ \A t \in Threads :
          /\ pc[t] \in {"s_store", "ts_store"} => send_pos_ \notin Occupied
          /\ pc[t] \in {"r_take", "tr_take"} => receive_pos_ \in Occupied

\* the channel of capacity 2 is full, a sender is suspended on it and a
\* receiver is about to take a value
C16_Witness ==
    \E t, u \in Threads :
       /\ N = MaxN
       /\ spaces_available_ = 0
       /\ t \in send_cv_
       /\ pc[u] = "r_take"

\* C17 -- Ring-index invariant: whenever no thread holds the mutex, send_pos_
\* and receive_pos_ are in [0, N) and (send_pos_ - receive_pos_) mod N equals
\* (N - spaces_available_) mod N; each successful send or try_send moves only
\* send_pos_, by one modulo N, and each successful receive or try_receive
\* moves only receive_pos_, by one modulo N.
C17_RingIndex ==
    /\ [](Unlocked =>
            /\ send_pos_ \in 0 .. (N - 1)
            /\ receive_pos_ \in 0 .. (N - 1)
            /\ (send_pos_ + N - receive_pos_) % N = (N - spaces_available_) % N)
    /\ [][/\ \A t \in Threads :
               /\ (Steps(t, "s_store") \/ Steps(t, "ts_store")) =>
                     /\ send_pos_' = (send_pos_ + 1) % N
                     /\ receive_pos_' = receive_pos_
               /\ (Steps(t, "r_take") \/ Steps(t, "tr_take")) =>
                     /\ receive_pos_' = (receive_pos_ + 1) % N
                     /\ send_pos_' = send_pos_
          /\ send_pos_' # send_pos_ =>
                \E t \in Threads : Steps(t, "s_store") \/ Steps(t, "ts_store")
          /\ receive_pos_' # receive_pos_ =>
                \E t \in Threads : Steps(t, "r_take") \/ Steps(t, "tr_take")
         ]_vars

\* with the mutex free, send_pos_ has wrapped around to 0 behind receive_pos_
C17_Witness ==
    /\ Unlocked
    /\ N = MaxN
    /\ send_pos_ = 0
    /\ receive_pos_ = N - 1
    /\ spaces_available_ = N - 1
    /\ Len(sent) = N

\* C18 -- The closed flag is monotonic: it starts false, and once it is true
\* no operation sets it back, so an is_closed() that returned true is followed
\* only by states in which the channel is closed.
C18_ClosedMonotonic ==
    /\ ~closed_
    /\ [][/\ closed_ => closed_'
          /\ closed_' # closed_ => \E t \in Threads : Closes(t)
          /\ \A t \in Threads : IsClosed(t) => (ret'[t][1] = "true" <=> closed_)
         ]_vars
    /\ [](\A t \in Threads : ret[t][1] = "true" => closed_)

\* is_closed() returned false to one thread and later true to another, and
\* the thread that closed the channel has been turned away by it since
C18_Witness ==
    \E t, u, w \in Threads :
       /\ closed_
       /\ ret[t] = <<"true", NoVal>>
       /\ ret[u] = <<"false", NoVal>>
       /\ pc[w] = "idle"
       /\ ret[w] = <<"Closed", NoVal>>

\* the values stored and not yet handed out
ToReceive == SubSeq(sent, Len(received) + 1, Len(sent))

\* C19 -- close is a permanent barrier: once closed_ is true no send or
\* try_send inserts a value, so the number of buffered elements never grows
\* and the values still to be received only become fewer. This holds also for
\* a send that was waiting, was woken by a receive, and gets the mutex only
\* after close() has run.
C19_CloseBarrier ==
    /\ [](closed_ =>
            \A t \in Threads : pc[t] \notin {"s_store", "s_sub", "ts_store", "ts_sub"})
    /\ [][closed_ =>
            /\ sent' = sent
            /\ buffer_' = buffer_
            /\ send_pos_' = send_pos_
            /\ spaces_available_' >= spaces_available_
            /\ Len(ToReceive') <= Len(ToReceive)
            /\ ToReceive' = SubSeq(ToReceive, Len(ToReceive) - Len(ToReceive') + 1,
                                   Len(ToReceive))
            /\ \A t \in Threads :
                  (SendPending(t) /\ ~SendPending(t)') => Returns(t, "send_after_close")
         ]_vars

\* the channel is closed and has a free slot again, and a send called by a
\* second sender has yet to take the mutex
C19_Witness ==
    \E t, u \in Threads :
       /\ t # u
       /\ closed_
       /\ pc[t] = "s_lock"
       /\ data[u] # NoVal
       /\ Len(sent) = N
       /\ Len(received) > 0
       /\ spaces_available_ > 0

\* C20 -- Busy result under lock contention: when another thread holds the
\* mutex at the moment of the call, try_send returns Full and try_receive
\* returns (Empty, none), without waiting and without changing the channel,
\* even when the channel is not full or not empty, and even when it is closed.
C20_BusyResult ==
    [][\A t \in Threads :
          /\ \A d \in Values : (TrySend(t, d) /\ data_mutex_ # Free) =>
                /\ pc'[t] = "idle"
                /\ ret'[t] = <<"Full", NoVal>>
                /\ ~Suspended(t)'
                /\ UNCHANGED <<chan, sync, hist>>
          /\ (TryReceive(t) /\ data_mutex_ # Free) =>
                /\ pc'[t] = "idle"
                /\ ret'[t] = <<"Empty", NoVal>>
                /\ ~Suspended(t)'
                /\ UNCHANGED <<chan, sync, hist>>
      ]_vars

\* only two threads have made calls: one has sent a value, closed the channel
\* and then been told Full by try_send while the receive of the other holds
\* the mutex, on a channel that was never full
C20_Witness ==
    \E t, u, w \in Threads :
       /\ closed_
       /\ data_mutex_ = u
       /\ pc[u] = "r_take"
       /\ pc[t] = "idle"
       /\ ret[t] = <<"Full", NoVal>>
       /\ ret[w][1] = "none"
       /\ Len(sent) < N

\* a thread is on its way to send_cv_.notify_all()
SendCvNotifyPending == \E u \in Threads : pc[u] \in {"r_notify", "tr_notify", "c_notify"}

\* a thread is on its way to receive_cv_.notify_all()
ReceiveCvNotifyPending == \E u \in Threads : pc[u] \in {"s_notify", "ts_notify", "c_notify"}

\* thread t is suspended although the predicate of its wait holds
WaitsInVain(t) ==
    \/ t \in send_cv_ /\ (spaces_available_ > 0 \/ closed_)
    \/ t \in receive_cv_ /\ (spaces_available_ < N \/ closed_)

\* thread t is before the critical section of send() or receive() although the
\* channel would let it in
CouldProceed(t) ==
    \/ pc[t] \in {"s_lock", "s_wait"} /\ (spaces_available_ > 0 \/ closed_)
    \/ pc[t] \in {"r_lock", "r_wait"} /\ (spaces_available_ < N \/ closed_)

\* C21 -- No lost wake-up: no thread stays suspended in send() while the
\* channel has a free slot or is closed, nor in receive() while a value is
\* buffered or the channel is closed, unless a notification of its condition
\* variable is still to come; so under fair scheduling a suspended thread whose
\* wait condition holds is woken, a send goes on once the channel is not full
\* and a receive once it is not empty, for any number of waiters.
C21_NoLostWakeup ==
    /\ [](\A t \in Threads :
            /\ (t \in send_cv_ /\ WaitsInVain(t)) => SendCvNotifyPending
            /\ (t \in receive_cv_ /\ WaitsInVain(t)) => ReceiveCvNotifyPending)
    /\ \A t \in Threads : WaitsInVain(t) ~> ~Suspended(t)
    /\ \A t \in Threads : CouldProceed(t) ~> ~CouldProceed(t)

\* two senders are suspended, a receive has freed a slot and has not yet
\* notified them
C21_Witness ==
    /\ Cardinality(send_cv_) >= 2
    /\ spaces_available_ > 0
    /\ ~closed_
    /\ data_mutex_ = Free
    /\ \E u \in Threads : pc[u] \in {"r_notify", "tr_notify"}

====
